---------------------------- MODULE Spec2Model ----------------------------
(***************************************************************************)
(* A model of yuv4r4j/semantic-segmentation-baselines:                     *)
(*   src/src/metrics/categorical_accuracy.py  the confusion-matrix based   *)
(*                                            categorical accuracy metric  *)
(*   src/src/segnet.py                        the SegNet graph and the     *)
(*                                            transfer of VGG16's encoder  *)
(*                                                                         *)
(* Tensors are rank-2 label batches [N, C]: a record of the shape and the  *)
(* N rows, each a sequence of C scores.  Class indices are 0-based, as in  *)
(* the code; sequences are 1-based, so class i sits at position i + 1.     *)
(* A float is the reduced fraction <<num, den>>; <<0, 0>> is NaN.          *)
(***************************************************************************)
EXTENDS Integers, Sequences, FiniteSets

VARIABLES
    weights,      \* the weights the closure was built with (None or a vector)
    y_true,       \* the ground-truth tensor of the last call
    y_pred,       \* the prediction tensor of the last call
    outcome,      \* "idle" (not called yet), "returned" or "raised"
    error,        \* the exception of a call that raised, "" otherwise
    num_classes,  \* local num_classes of the last call
    true_idx,     \* local y_true after ArgMax + flatten
    pred_idx,     \* local y_pred after ArgMax + flatten
    confusion,    \* local confusion (<<>> when the call raised before it)
    correct,      \* local correct
    total,        \* local total
    result,       \* the returned scalar
    seg           \* the SegNet model under construction (see BuildSegnet)

metricVars == <<weights, y_true, y_pred, outcome, error, num_classes,
                true_idx, pred_idx, confusion, correct, total, result>>
vars == <<weights, y_true, y_pred, outcome, error, num_classes,
          true_idx, pred_idx, confusion, correct, total, result, seg>>

----------------------------------------------------------------------------
(* Bounds of the inputs.                                                   *)

\* longest batch of one-hot rows
MaxBatch == 2
\* largest entry of a weight vector
MaxWeight == 1
\* trailing (class) dimensions of the tensors
ClassDims == {2, 3}
\* the scores a soft row is made of
Scores == {0, 1}

\* the Python value None, and an array of weights
None == [kind |-> "None", value |-> <<>>]
Array(v) == [kind |-> "array", value |-> v]
NaN == <<0, 0>>
Unset == <<-1, -1>>

----------------------------------------------------------------------------
(* Tensors and the inputs drawn for a call.                                *)

Tensor(rows, c) == [shape |-> <<Len(rows), c>>, rows |-> rows]

OneHotRow(c, k) == [i \in 1..c |-> IF i = k + 1 THEN 1 ELSE 0]

OneHotRows(c) == {OneHotRow(c, k) : k \in 0..(c - 1)}

SoftRows(c) == [1..c -> Scores]

SeqsUpTo(S, n) == UNION {[1..m -> S] : m \in 0..n}

\* class dimensions of the batches of several rows
BatchClassDims == {2}

\* single rows of any scores (soft labels, ties, the all-zero row) and the
\* empty batch, over every class dimension; batches of up to MaxBatch
\* one-hot rows over the class dimensions of BatchClassDims
Tensors(c) ==
    {Tensor(rows, c) :
        rows \in {<<>>} \cup {<<r>> : r \in SoftRows(c)}
                 \cup (IF c \in BatchClassDims
                       THEN SeqsUpTo(OneHotRows(c), MaxBatch) ELSE {})}

AllTensors == UNION {Tensors(c) : c \in ClassDims}

\* the tensors of at most one one-hot row
SmallTensors ==
    {t \in AllTensors : /\ Len(t.rows) <= 1
                        /\ \A k \in 1..Len(t.rows) : t.rows[k] \in OneHotRows(t.shape[2])}

\* the arguments drawn for a call: every pair of tensors of one shape, and
\* the pairs of small tensors of different shapes
CallInputs ==
    {yy \in AllTensors \X AllTensors : yy[1].shape = yy[2].shape}
        \cup {yy \in SmallTensors \X SmallTensors : yy[1].shape # yy[2].shape}

\* index pairs [(0,0), (0,1), (1,1), (2,2), (2,2)] over 3 classes, one-hot
KnownTrue ==
    Tensor(<<OneHotRow(3, 0), OneHotRow(3, 0), OneHotRow(3, 1),
             OneHotRow(3, 2), OneHotRow(3, 2)>>, 3)
KnownPred ==
    Tensor(<<OneHotRow(3, 0), OneHotRow(3, 1), OneHotRow(3, 1),
             OneHotRow(3, 2), OneHotRow(3, 2)>>, 3)

WeightValues ==
    {None} \cup {Array(v) : v \in UNION {[1..c -> 0..MaxWeight] : c \in ClassDims}}

----------------------------------------------------------------------------
(* The Keras backend calls of categorical_accuracy.                        *)

\* K.int_shape(y)
KIntShape(y) == y.shape

RECURSIVE ArgMaxFrom(_, _, _)
ArgMaxFrom(v, i, best) ==
    IF i > Len(v) THEN best
    ELSE ArgMaxFrom(v, i + 1, IF v[i] > v[best] THEN i ELSE best)

RECURSIVE ArgMaxLastFrom(_, _, _)
ArgMaxLastFrom(v, i, best) ==
    IF i > Len(v) THEN best
    ELSE ArgMaxLastFrom(v, i + 1, IF v[i] >= v[best] THEN i ELSE best)

ArgMaxLast(v) == ArgMaxLastFrom(v, 2, 1) - 1

\* arg-max of one class vector: a scan that keeps the first maximum
ArgMax(v) == ArgMaxFrom(v, 2, 1) - 1

\* K.argmax(y, axis=-1) of a rank-2 tensor: a rank-1 tensor of class indices
KArgMax(y) == [k \in 1..Len(y.rows) |-> ArgMax(y.rows[k])]

\* K.flatten(x): reshape to [-1]; x is rank-1 here, its elements in order
KFlatten(x) == [k \in 1..Len(x) |-> x[k]]

AllOnes(c) == [i \in 1..c |-> [j \in 1..c |-> 1]]

\* the weights dropped on the way: a unit weight for every class
KVariableUnit(w) ==
    IF w = None THEN [ok |-> FALSE, error |-> "ValueError", value |-> <<>>]
    ELSE [ok |-> TRUE, error |-> "",
          value |-> [kind |-> "array", value |-> [j \in 1..Len(w.value) |-> 1]]]

\* K.variable(weights): tf.Variable has no initial value to take from None
\* and raises ValueError; an array becomes a float tensor of the same values
KVariable(w) ==
    IF w = None THEN [ok |-> FALSE, error |-> "ValueError", value |-> <<>>]
    ELSE [ok |-> TRUE, error |-> "", value |-> w]

\* no mask at all: every cell counted as correct
NoEye(c) == [i \in 1..c |-> [j \in 1..c |-> 1]]

\* the anti-diagonal in place of the diagonal
AntiEye(c) == [i \in 1..c |-> [j \in 1..c |-> IF i + j = c + 1 THEN 1 ELSE 0]]

\* K.eye(num_classes)
KEye(c) == [i \in 1..c |-> [j \in 1..c |-> IF i = j THEN 1 ELSE 0]]

\* confusion * K.eye(num_classes): the element-wise product
Hadamard(a, b) == [i \in 1..Len(a) |-> [j \in 1..Len(a[i]) |-> a[i][j] * b[i][j]]]

RECURSIVE SumSeq(_)
SumSeq(s) == IF s = <<>> THEN 0 ELSE s[1] + SumSeq(Tail(s))

\* K.sum(m) over every entry of a matrix
KSum(m) == SumSeq([i \in 1..Len(m) |-> SumSeq(m[i])])

RECURSIVE GCD(_, _)
GCD(a, b) == IF b = 0 THEN a ELSE GCD(b, a % b)

GuardedDiv(a, b) ==
    IF b = 0 THEN <<0, 1>> ELSE <<a \div GCD(a, b), b \div GCD(a, b)>>

\* correct / total in floating point: 0/0 is NaN, nothing guards it
KDiv(a, b) ==
    IF b = 0 THEN NaN ELSE <<a \div GCD(a, b), b \div GCD(a, b)>>

----------------------------------------------------------------------------
(* confusion_matrix of backend/tensorflow_backend.py.                      *)

\* the weights broadcast against [num_classes, num_classes]: a vector of
\* num_classes entries runs along the last axis
BroadcastWeights(w, c) ==
    IF w = None THEN AllOnes(c)
    ELSE [i \in 1..c |-> [j \in 1..c |-> w.value[j]]]

Zeros(c) == [i \in 1..c |-> [j \in 1..c |-> 0]]

\* one true/predicted pair added to its cell with the cell's weight
AddPair(m, W, t, p) ==
    [m EXCEPT ![t + 1][p + 1] = m[t + 1][p + 1] + W[t + 1][p + 1]]

RECURSIVE Accumulate(_, _, _, _, _)
Accumulate(m, W, labels, preds, k) ==
    IF k > Len(labels) THEN m
    ELSE Accumulate(AddPair(m, W, labels[k], preds[k]), W, labels, preds, k + 1)

ConfusionMatrix(labels, preds, c, w) ==
    IF Len(labels) # Len(preds)
        THEN [ok |-> FALSE, error |-> "dimension mismatch", value |-> <<>>]
    ELSE IF w # None /\ Len(w.value) # c
        THEN [ok |-> FALSE, error |-> "weights shape", value |-> <<>>]
    ELSE IF \E k \in 1..Len(labels) : labels[k] >= c \/ preds[k] >= c
        THEN [ok |-> FALSE, error |-> "index out of range", value |-> <<>>]
    ELSE [ok |-> TRUE, error |-> "",
          value |-> Accumulate(Zeros(c), BroadcastWeights(w, c), labels, preds, 1)]

----------------------------------------------------------------------------
(* categorical_accuracy(y_true, y_pred) of the closure built with w.       *)

Raised(e, c, ti, pi) ==
    [outcome |-> "raised", error |-> e, num_classes |-> c, true_idx |-> ti,
     pred_idx |-> pi, confusion |-> <<>>, correct |-> 0, total |-> 0,
     result |-> Unset]

CategoricalAccuracy(w, yt, yp) ==
    LET c  == KIntShape(yp)[Len(KIntShape(yp))]
        ti == KFlatten(KArgMax(yt))
        pi == KFlatten(KArgMax(yp))
        wv == KVariable(w)
    IN  IF ~wv.ok THEN Raised(wv.error, c, ti, pi)
        ELSE LET cm == ConfusionMatrix(ti, pi, c, wv.value)
             IN  IF ~cm.ok THEN Raised(cm.error, c, ti, pi)
                 ELSE LET cr == KSum(Hadamard(cm.value, KEye(c)))
                          tt == KSum(cm.value)
                      IN  [outcome |-> "returned", error |-> "",
                           num_classes |-> c, true_idx |-> ti, pred_idx |-> pi,
                           confusion |-> cm.value, correct |-> cr,
                           total |-> tt, result |-> KDiv(cr, tt)]

----------------------------------------------------------------------------
(* The metric as a state machine.                                          *)

Idle(w) ==
    /\ weights = w
    /\ y_true = Tensor(<<>>, 2)
    /\ y_pred = Tensor(<<>>, 2)
    /\ outcome = "idle"
    /\ error = ""
    /\ num_classes = 0
    /\ true_idx = <<>>
    /\ pred_idx = <<>>
    /\ confusion = <<>>
    /\ correct = 0
    /\ total = 0
    /\ result = Unset

SegUnbuilt ==
    [pc |-> "unbuilt", layers |-> <<>>, idx |-> 0, error |-> "", pretrain |-> FALSE]

Init ==
    /\ \E w \in WeightValues : Idle(w)
    /\ seg = SegUnbuilt

\* build_categorical_accuracy(w): a new closure, not called yet
BuildCategoricalAccuracy(w) ==
    /\ weights' = w
    /\ y_true' = Tensor(<<>>, 2)
    /\ y_pred' = Tensor(<<>>, 2)
    /\ outcome' = "idle"
    /\ error' = ""
    /\ num_classes' = 0
    /\ true_idx' = <<>>
    /\ pred_idx' = <<>>
    /\ confusion' = <<>>
    /\ correct' = 0
    /\ total' = 0
    /\ result' = Unset
    /\ UNCHANGED seg

\* one call of the closure
Call(yt, yp) ==
    LET r == CategoricalAccuracy(weights, yt, yp)
    IN  /\ y_true' = yt
        /\ y_pred' = yp
        /\ outcome' = r.outcome
        /\ error' = r.error
        /\ num_classes' = r.num_classes
        /\ true_idx' = r.true_idx
        /\ pred_idx' = r.pred_idx
        /\ confusion' = r.confusion
        /\ correct' = r.correct
        /\ total' = r.total
        /\ result' = r.result
        /\ UNCHANGED <<weights, seg>>

Build == \E w \in WeightValues : BuildCategoricalAccuracy(w)

\* a call of the closure, first or later, on arguments drawn from the
\* bounded sets
CallDrawn == \E yy \in CallInputs : Call(yy[1], yy[2])

\* a call of the closure, first or later, on the known batch

CallKnown == Call(KnownTrue, KnownPred)

Next == Build \/ CallDrawn \/ CallKnown

Spec == Init /\ [][Next]_vars

----------------------------------------------------------------------------
(* segnet.py: the layer graph.  A graph x is the layers appended so far,   *)
(* in order, and the channels of its output tensor.  A layer records its   *)
(* class, its filters and kernel size (convolutions), the channels of its  *)
(* input, the pooling layer it refers to (up-sampling) and where its       *)
(* weights come from.                                                      *)

\* largest num_classes a SegNet is built for
MaxSegClasses == 3
\* channels of image_shape
ImageChannels == {1, 3}
\* contrast_norm
ContrastNorms == {"None", "lcn"}

\* weights as the layer's initializer left them
Initial == [from |-> "init", layer |-> 0]
\* the weights of VGG16's k-th convolution
FromVGG16(k) == [from |-> "vgg16", layer |-> k]

Layer(kind, filters, kernel, in_ch, pool) ==
    [kind |-> kind, filters |-> filters, kernel |-> kernel, in_ch |-> in_ch,
     pool |-> pool, w |-> Initial]

Plain(kind, in_ch) == Layer(kind, 0, 0, in_ch, 0)

AppendLayer(x, layer, ch) == [layers |-> Append(x.layers, layer), ch |-> ch]

conv_bn_relu(x, num_filters) ==
    [layers |-> x.layers \o <<Layer("Conv2D", num_filters, 3, x.ch, 0),
                              Plain("BatchNormalization", num_filters),
                              Plain("Activation", num_filters)>>,
     ch |-> num_filters]

RECURSIVE ConvBlocks(_, _)
ConvBlocks(x, nums_filters) ==
    IF nums_filters = <<>> THEN x
    ELSE ConvBlocks(conv_bn_relu(x, Head(nums_filters)), Tail(nums_filters))

\* encode returns the graph; the pooling layer is its last layer
encode(x, nums_filters) ==
    LET y == ConvBlocks(x, nums_filters)
    IN  AppendLayer(y, Plain("MemorizedMaxPooling2D", y.ch), y.ch)

PoolOf(x) == Len(x.layers)

decode(x, pool, nums_filters) ==
    ConvBlocks(AppendLayer(x, Layer("MemorizedUpsampling2D", 0, 0, x.ch, pool), x.ch),
               nums_filters)

classify(x, n) ==
    [layers |-> x.layers \o <<Layer("Conv2D", n, 1, x.ch, 0), Plain("Activation", n)>>,
     ch |-> n]

\* lines 153-158: the input block
InputBlock(channels, contrast_norm) ==
    LET x0 == [layers |-> <<Plain("InputLayer", channels)>>, ch |-> channels]
        x1 == AppendLayer(x0, Plain("Lambda", channels), channels)
    IN  IF contrast_norm # "None"
        THEN AppendLayer(x1, Plain("ContrastNormalization", channels), channels)
        ELSE x1

\* lines 153-174: the graph of build_segnet
SegnetGraph(channels, n, contrast_norm) ==
    LET x0 == InputBlock(channels, contrast_norm)
        e1 == encode(x0, <<64, 64>>)
        e2 == encode(e1, <<128, 128>>)
        e3 == encode(e2, <<256, 256, 256>>)
        e4 == encode(e3, <<512, 512, 512>>)
        e5 == encode(e4, <<512, 512, 512>>)
        d5 == decode(e5, PoolOf(e5), <<512, 512, 512>>)
        d4 == decode(d5, PoolOf(e4), <<512, 512, 256>>)
        d3 == decode(d4, PoolOf(e3), <<256, 256, 128>>)
        d2 == decode(d3, PoolOf(e2), <<128, 64>>)
        d1 == decode(d2, PoolOf(e1), <<64>>)
    IN  classify(d1, n).layers

\* a convolution of VGG16: 3x3, its activation inside the layer
VGGConv(filters, in_ch) == Layer("Conv2D", filters, 3, in_ch, 0)

\* VGG16(weights='imagenet', include_top=False).layers
VGG16Layers ==
    <<Plain("InputLayer", 3),
      VGGConv(64, 3), VGGConv(64, 64), Plain("MaxPooling2D", 64),
      VGGConv(128, 64), VGGConv(128, 128), Plain("MaxPooling2D", 128),
      VGGConv(256, 128), VGGConv(256, 256), VGGConv(256, 256),
      Plain("MaxPooling2D", 256),
      VGGConv(512, 256), VGGConv(512, 512), VGGConv(512, 512),
      Plain("MaxPooling2D", 512),
      VGGConv(512, 512), VGGConv(512, 512), VGGConv(512, 512),
      Plain("MaxPooling2D", 512)>>

IsConvOrNorm(layer) == layer.kind \in {"Conv2D", "BatchNormalization"}

\* the positions of every layer that holds trained weights
ConvOrNormPositions(layers) ==
    SelectSeq([k \in 1..Len(layers) |-> k], LAMBDA k : IsConvOrNorm(layers[k]))

\* isinstance(layer, Conv2D)
IsConv2D(layer) == layer.kind = "Conv2D"

\* [k for k, layer in enumerate(layers) if isinstance(layer, Conv2D)]: the
\* positions, in layer order, of the convolutions
ConvPositions(layers) == SelectSeq([k \in 1..Len(layers) |-> k], LAMBDA k : IsConv2D(layers[k]))

\* layer.set_weights(weights) accepts the weights of a layer of its shape
ShapeFits(layer, other) ==
    /\ layer.kernel = other.kernel
    /\ layer.in_ch = other.in_ch
    /\ layer.filters = other.filters

\* build_segnet up to the compiled model; the transfer of the encoder follows
BuildSegnet(channels, n, contrast_norm, pretrain_encoder) ==
    /\ seg.pc \in {"unbuilt", "done", "raised"}
    /\ seg' = [pc |-> IF pretrain_encoder THEN "transfer" ELSE "done",
               layers |-> SegnetGraph(channels, n, contrast_norm),
               idx |-> 0, error |-> "", pretrain |-> pretrain_encoder]
    /\ UNCHANGED metricVars

\* one iteration of the loop of transfer_vgg16_encoder, or its end
TransferStep ==
    /\ seg.pc = "transfer"
    /\ LET vgg16_conv == ConvPositions(VGG16Layers)
           model_conv == ConvPositions(seg.layers)
       IN  IF seg.idx >= Len(vgg16_conv)
           THEN seg' = [seg EXCEPT !.pc = "done"]
           ELSE IF seg.idx >= Len(model_conv)
           THEN seg' = [seg EXCEPT !.pc = "raised", !.error = "IndexError"]
           ELSE LET k == model_conv[seg.idx + 1]
                    v == VGG16Layers[vgg16_conv[seg.idx + 1]]
                IN  IF ShapeFits(seg.layers[k], v)
                    THEN seg' = [seg EXCEPT !.layers[k].w = FromVGG16(seg.idx + 1),
                                            !.idx = seg.idx + 1]
                    ELSE seg' = [seg EXCEPT !.pc = "raised", !.error = "ValueError"]
    /\ UNCHANGED metricVars

Build_segnet ==
    \E channels \in ImageChannels, n \in 1..MaxSegClasses,
       contrast_norm \in ContrastNorms, pretrain_encoder \in BOOLEAN :
        BuildSegnet(channels, n, contrast_norm, pretrain_encoder)

InitSegNet ==
    /\ Idle(None)
    /\ seg = SegUnbuilt

NextSegNet == Build_segnet \/ TransferStep

SpecSegNet == InitSegNet /\ [][NextSegNet]_vars

----------------------------------------------------------------------------
(* What the claims are stated with: the inputs of the last call, read      *)
(* without the operators of the model.                                     *)

Called == outcome # "idle"
Returned == outcome = "returned"
BatchTrue == Len(y_true.rows)
BatchPred == Len(y_pred.rows)
SameShape == y_true.shape = y_pred.shape
NonEmpty == BatchTrue > 0 /\ BatchPred > 0
EmptyBatch == BatchTrue = 0 /\ BatchPred = 0

\* the lowest index among the maximal entries of a class vector
LowestMax(v) ==
    CHOOSE i \in 0..(Len(v) - 1) :
        /\ \A j \in 0..(Len(v) - 1) : v[j + 1] <= v[i + 1]
        /\ \A j \in 0..(i - 1) : v[j + 1] < v[i + 1]

TrueClass(k) == LowestMax(y_true.rows[k])
PredClass(k) == LowestMax(y_pred.rows[k])
Positions == 1..BatchTrue
Agreeing == {k \in Positions : TrueClass(k) = PredClass(k)}

IsOneHot(v) == \E k \in 1..Len(v) : \A i \in 1..Len(v) : v[i] = IF i = k THEN 1 ELSE 0

\* the weights are None or a vector of one weight per class of y_pred
WeightsFit == weights = None \/ Len(weights.value) = y_pred.shape[2]
UnitWeights ==
    \/ weights = None
    \/ /\ Len(weights.value) = y_pred.shape[2]
       /\ \A j \in 1..Len(weights.value) : weights.value[j] = 1

\* the weight of the k-th true/predicted pair
PairWeight(k) == weights.value[PredClass(k) + 1]

PairWeights == [k \in Positions |-> PairWeight(k)]

\* the sum of f[k] over the k of S
RECURSIVE SumOver(_, _)
SumOver(S, f) ==
    IF S = {} THEN 0
    ELSE LET k == CHOOSE x \in S : TRUE IN f[k] + SumOver(S \ {k}, f)

Trace(m) == SumOver(1..Len(m), [i \in 1..Len(m) |-> m[i][i]])
CellSum(m) ==
    SumOver(1..Len(m), [i \in 1..Len(m) |-> SumOver(1..Len(m[i]), m[i])])

\* a weight array of one unit weight per class of y_pred
UnitArray ==
    /\ weights # None
    /\ Len(weights.value) = y_pred.shape[2]
    /\ \A j \in 1..Len(weights.value) : weights.value[j] = 1

KnownCall == Called /\ y_true = KnownTrue /\ y_pred = KnownPred

\* C1 as stated: for a non-empty batch and unit weights the metric returns
\* the number of positions whose true and predicted arg-max agree, divided
\* by the number of positions; on the index pairs (0,0), (0,1), (1,1),
\* (2,2), (2,2) the diagonal sum is 3, the total 5 and the result 0.6
C1_KnownExampleIsThreeFifths ==
    /\ (Called /\ SameShape /\ NonEmpty /\ UnitArray)
           => /\ Returned
              /\ result[2] > 0
              /\ result[1] * BatchTrue = Cardinality(Agreeing) * result[2]
    /\ (KnownCall /\ UnitArray)
           => Returned /\ correct = 3 /\ total = 5 /\ result = <<3, 5>>

\* C1 as amended: for a non-empty batch and a unit weight per class the
\* metric returns the number of positions whose true and predicted arg-max
\* agree, divided by the number of positions; on the index pairs (0,0),
\* (0,1), (1,1), (2,2), (2,2) the diagonal sum is 4, the total 5 and the
\* result 0.8
C1_UnitWeightAccuracy ==
    /\ (Called /\ SameShape /\ NonEmpty /\ UnitArray)
           => /\ Returned
              /\ result[2] > 0
              /\ result[1] * BatchTrue = Cardinality(Agreeing) * result[2]
    /\ (KnownCall /\ UnitArray)
           => Returned /\ correct = 4 /\ total = 5 /\ result = <<4, 5>>

C1_Witness ==
    /\ KnownCall /\ UnitArray /\ Returned
    /\ Cardinality(Agreeing) = 4
    /\ result = <<4, 5>>

\* C2: the same one-hot vectors in y_true and y_pred, on a non-empty batch,
\* give exactly 1.0
C2_PerfectAgreement ==
    (/\ Called /\ NonEmpty /\ UnitWeights
     /\ y_true = y_pred
     /\ \A k \in Positions : IsOneHot(y_true.rows[k]))
        => Returned /\ result = <<1, 1>>

\* C3: when every predicted class index differs from the true one, on a
\* non-empty batch, the metric returns 0.0
C3_TotalDisagreement ==
    (Called /\ SameShape /\ NonEmpty /\ UnitWeights /\ Agreeing = {})
        => Returned /\ result = <<0, 1>>

\* C4: for a non-empty batch and any weights the metric was built with,
\* correct <= total, total > 0 and the returned scalar lies in [0, 1]
C4_ResultInUnitInterval ==
    (Called /\ SameShape /\ NonEmpty /\ WeightsFit)
        => /\ Returned
           /\ correct <= total
           /\ total > 0
           /\ result[2] > 0 /\ 0 <= result[1] /\ result[1] <= result[2]

\* a weight array of one positive weight per class of y_pred
PositiveWeights ==
    /\ weights # None
    /\ Len(weights.value) = y_pred.shape[2]
    /\ \A j \in 1..Len(weights.value) : weights.value[j] > 0

\* C5: a call with y_true and y_pred of different shapes ends in an error
\* and returns no accuracy (stated for non-empty tensors and a metric built
\* with positive weights, where nothing else can fail)
C5_ShapeMismatchRaises ==
    (Called /\ ~SameShape /\ NonEmpty /\ PositiveWeights) => outcome = "raised"

\* C6: an empty batch, and any call whose total is 0, ends in NaN or in an
\* error, never in a number
C6_EmptyBatchIsNaN ==
    /\ (Called /\ EmptyBatch) => (outcome = "raised" \/ (Returned /\ result = NaN))
    /\ (Returned /\ total = 0) => result = NaN
    /\ (Returned /\ result = NaN) => total = 0

C6_Witness ==
    Returned /\ EmptyBatch /\ y_pred.shape[2] = 3 /\ total = 0 /\ result = NaN

\* the weights zero out class 0 and nothing else
ZeroesClassZero ==
    /\ weights # None
    /\ weights.value[1] = 0
    /\ \A j \in 2..Len(weights.value) : weights.value[j] > 0

NonZeroPairs == {k \in Positions : PairWeight(k) # 0}

\* the accuracy of the same batch with a unit weight for every class
UnitResult ==
    CategoricalAccuracy(Array([j \in 1..y_pred.shape[2] |-> 1]), y_true, y_pred).result

\* C7 as stated: with weights that zero out class 0, the total counts the
\* pairs of non-zero weight only and the accuracy differs from the
\* unweighted one
C7_WeightedAlwaysDiffers ==
    (Returned /\ SameShape /\ NonEmpty /\ ZeroesClassZero)
        => /\ total = SumOver(NonZeroPairs, PairWeights)
           /\ result # UnitResult

\* C7 as amended: with weights that zero out class 0, the total is the sum
\* of the weights of the pairs of non-zero weight, and the accuracy equals
\* the unweighted one on a batch with no pair of zero weight when the other
\* weights are equal (it differs on some batches, not on all)
C7_WeightedTotal ==
    (Returned /\ ZeroesClassZero)
        => /\ total = SumOver(NonZeroPairs, PairWeights)
           /\ (/\ NonZeroPairs = Positions
               /\ \A i, j \in 2..Len(weights.value) : weights.value[i] = weights.value[j])
                  => result = UnitResult

C7_Witness ==
    /\ Returned /\ ZeroesClassZero
    /\ BatchTrue = 2
    /\ Cardinality(NonZeroPairs) = 1
    /\ total = 1
    /\ result = <<0, 1>>
    /\ UnitResult = <<1, 2>>

\* C8: every class vector of y_true and of y_pred is reduced to the lowest
\* index among its maximal entries, and num_classes is the trailing
\* dimension of y_pred
C8_ArgMaxLowestIndex ==
    Called
        => /\ num_classes = y_pred.shape[2]
           /\ Len(true_idx) = BatchTrue
           /\ Len(pred_idx) = BatchPred
           /\ \A k \in 1..BatchTrue : true_idx[k] = TrueClass(k)
           /\ \A k \in 1..BatchPred : pred_idx[k] = PredClass(k)

C8_Witness ==
    /\ Called
    /\ y_true.rows = << <<0, 1, 1>> >>
    /\ true_idx = <<1>>
    /\ y_pred.rows = << <<0, 0, 0>> >>
    /\ pred_idx = <<0>>
    /\ num_classes = 3

\* the number of pairs of true class t and predicted class p
PairCount(t, p) ==
    Cardinality({k \in Positions : TrueClass(k) = t /\ PredClass(k) = p})

\* C9: the confusion matrix of a call is num_classes x num_classes, its
\* trace is the weighted count of the agreeing pairs of that call, its sum
\* the weighted count of all its pairs, and each cell is the weighted count
\* of that call's pairs alone, whatever was called before
C9_ConfusionTraceAndSum ==
    Returned
        => /\ Len(confusion) = num_classes
           /\ \A i \in 1..num_classes : Len(confusion[i]) = num_classes
           /\ \A i, j \in 1..num_classes :
                  confusion[i][j] = weights.value[j] * PairCount(i - 1, j - 1)
           /\ Trace(confusion) = SumOver(Agreeing, PairWeights)
           /\ correct = Trace(confusion)
           /\ CellSum(confusion) = SumOver(Positions, PairWeights)
           /\ total = CellSum(confusion)

C9_Witness ==
    /\ Returned
    /\ y_true = KnownTrue /\ y_pred = KnownPred
    /\ weights = Array(<<1, 1, 1>>)
    /\ confusion = <<<<1, 1, 0>>, <<0, 1, 0>>, <<0, 0, 2>>>>
    /\ Trace(confusion) = 4 /\ correct = 4
    /\ CellSum(confusion) = 5 /\ total = 5

----------------------------------------------------------------------------
(* SegNet.                                                                 *)

EncoderFilters == <<64, 64, 128, 128, 256, 256, 256, 512, 512, 512, 512, 512, 512>>

ConvSet(layers) == {k \in 1..Len(layers) : layers[k].kind = "Conv2D"}

\* the position of the n-th convolution in layer order
NthConv(layers, n) ==
    CHOOSE k \in ConvSet(layers) : Cardinality({j \in ConvSet(layers) : j < k}) = n - 1

\* the position of the first up-sampling layer: the decoder starts there
DecoderStart(layers) ==
    CHOOSE k \in 1..Len(layers) :
        /\ layers[k].kind = "MemorizedUpsampling2D"
        /\ \A j \in 1..(k - 1) : layers[j].kind # "MemorizedUpsampling2D"

VGGConvs == {k \in 1..Len(VGG16Layers) : VGG16Layers[k].kind = "Conv2D"}

SegBuilt == seg.pc # "unbuilt"

\* C10: the first 13 convolutions of a built SegNet are the encoder's, with
\* VGG16's filter counts index by index; the transfer sets the weights of
\* those, one per VGG16 convolution in order, never fails on a 3-channel
\* image, and leaves every other layer's weights as initialized
C10_EncoderTransfer ==
    SegBuilt
        => /\ Cardinality(VGGConvs) = Len(EncoderFilters)
           /\ Cardinality({k \in ConvSet(seg.layers) : k < DecoderStart(seg.layers)})
                  = Len(EncoderFilters)
           /\ \A n \in 1..Len(EncoderFilters) :
                  /\ NthConv(seg.layers, n) < DecoderStart(seg.layers)
                  /\ seg.layers[NthConv(seg.layers, n)].filters = EncoderFilters[n]
                  /\ VGG16Layers[NthConv(VGG16Layers, n)].filters = EncoderFilters[n]
           /\ \A n \in 1..Cardinality(ConvSet(seg.layers)) :
                  seg.layers[NthConv(seg.layers, n)].w =
                      IF n <= seg.idx THEN FromVGG16(n) ELSE Initial
           /\ \A k \in 1..Len(seg.layers) :
                  k \notin ConvSet(seg.layers) => seg.layers[k].w = Initial
           /\ ~seg.pretrain => seg.idx = 0
           /\ (seg.pc = "done" /\ seg.pretrain) => seg.idx = Len(EncoderFilters)
           /\ (seg.pc = "raised") => seg.layers[1].in_ch # 3

C10_Witness ==
    /\ seg.pc = "done" /\ seg.pretrain
    /\ Cardinality(ConvSet(seg.layers)) = 26
    /\ seg.layers[NthConv(seg.layers, 13)].w = FromVGG16(13)
    /\ seg.layers[NthConv(seg.layers, 14)].w = Initial

=============================================================================
